---- MODULE Spec2Model ----
(***************************************************************************)
(* DBConnector (src/src/db_connector.py) and the diagnostic script         *)
(* test_connection (src/test_postgres_connection.py) as a state machine.   *)
(*                                                                         *)
(* The backend is the collaborator: a set of schemas and a set of          *)
(* (schema, table) pairs.  Every backend call of load_tables and of the    *)
(* script is one step, so that a failing call and a concurrent change of   *)
(* the backend can be placed between any two calls.                        *)
(***************************************************************************)
EXTENDS Naturals, Sequences, FiniteSets

VARIABLES
    config,       \* self.config: the mapping yaml.safe_load returned
    schemas,      \* backend: the schemas that exist
    dbTables,     \* backend: the <<schema, table>> pairs that exist
    pc,           \* position of the Connector's current call
    idx,          \* position of the running for-loop in its list
    tables,       \* self.tables: table name -> what was read
    calls,        \* backend calls issued by the current load_tables call
    out,          \* lines printed by the current load_tables call
    error,        \* the exception the current call propagated
    constructed,  \* DBConnector(...) returned an instance to the caller
    loads,        \* number of load_tables calls started
    diag,         \* the diagnostic script's locals and its return value
    dpc,          \* position of the diagnostic script
    didx,         \* position of the script's loop over required_tables
    raceSeen      \* history: the effects of concurrent changes met so far

vars == <<config, schemas, dbTables, pc, idx, tables, calls, out, error,
          constructed, loads, diag, dpc, didx, raceSeen>>

(* ------------------------------ bounds -------------------------------- *)

\* load_tables calls of one run (each constructor's one included)
MaxLoads == 2

(* --------------------------- the two lists ---------------------------- *)

required_table_names ==
    <<"claims_entries", "claims_diagnoses", "claims_procedures",
      "claims_drugs", "members">>

optional_table_names == <<"claims_members_monthly_utilization">>

Range(s) == {s[k] : k \in 1..Len(s)}

TableNames == Range(required_table_names) \cup Range(optional_table_names)

(* ------------------------------ inputs -------------------------------- *)

\* Schema names of the backend, in the order get_schema_names lists them.
SchemaOrder == <<"clinical", "public">>

SchemaNames == Range(SchemaOrder)

\* dict.get(key, default)
Get(d, key, default) == IF key \in DOMAIN d THEN d[key] ELSE default

EmptyDict == [k \in {} |-> k]

\* Configurations: no postgres section, a section without schema, a section
\* with one.
Configs ==
    { [duckdb |-> [path |-> "db"]],
      [postgres |-> [database |-> "db"]],
      [postgres |-> [database |-> "db", schema |-> "clinical"]] }

Backends ==
    { b \in [schemas : SUBSET SchemaNames,
             tables : SUBSET (SchemaNames \X TableNames)] :
        \A st \in b.tables : st[1] \in b.schemas }

(* ------------------------ values of the state ------------------------- *)

NoError == [type |-> "none", msg |-> <<>>]

\* Mutant: the message names the table without its schema.
MissingRequiredUnqualified(schema, table_name) ==
    [type |-> "RuntimeError",
     msg |-> <<"Missing required table", "", table_name>>]

\* raise RuntimeError(f"Missing required table: {schema}.{table_name}")
MissingRequired(schema, table_name) ==
    [type |-> "RuntimeError",
     msg |-> <<"Missing required table", schema, table_name>>]

\* An exception of the driver, propagated unchanged.
BackendError(op, schema, table_name) ==
    [type |-> "BackendError", msg |-> <<op, schema, table_name>>]

Call(op, schema, table_name, result) ==
    [op |-> op, schema |-> schema, table |-> table_name, result |-> result]

Put(d, key, value) ==
    [k \in DOMAIN d \cup {key} |-> IF k = key THEN value ELSE d[k]]

NoDiag == [ran |-> FALSE, ok |-> FALSE, schema |-> "", listed |-> <<>>,
           missing |-> <<>>]

(* ----------------------------- the backend ---------------------------- *)

\* insp.has_table(table_name, schema=schema)
has_table(table_name, schema) == <<schema, table_name>> \in dbTables

\* Every required table exists under the schema.
RequiredPresent(schema) ==
    \A k \in 1..Len(required_table_names) :
        has_table(required_table_names[k], schema)

\* insp.get_schema_names(): the existing schemas, in the backend's order
get_schema_names ==
    LET Listed[k \in 0..Len(SchemaOrder)] ==
            IF k = 0 THEN <<>>
            ELSE IF SchemaOrder[k] \in schemas
                 THEN Append(Listed[k - 1], SchemaOrder[k])
                 ELSE Listed[k - 1]
    IN Listed[Len(SchemaOrder)]

(* ---------------------------- DBConnector ----------------------------- *)

\* Mutant: the diagnostic script's fallback to the first listed schema.
ResolvedSchemaWithFallback ==
    LET configured ==
            Get(Get(config, "postgres", EmptyDict), "schema", "public")
    IN IF configured \notin schemas /\ get_schema_names # <<>>
       THEN get_schema_names[1]
       ELSE configured

\* schema = self.config.get('postgres', {}).get('schema', 'public')
ResolvedSchema == Get(Get(config, "postgres", EmptyDict), "schema", "public")

Init ==
    /\ config \in Configs
    /\ \E b \in Backends : schemas = b.schemas /\ dbTables = b.tables
    /\ pc = "new"
    /\ idx = 0
    /\ tables = EmptyDict
    /\ calls = <<>>
    /\ out = <<>>
    /\ error = NoError
    /\ constructed = FALSE
    /\ loads = 0
    /\ diag = NoDiag
    /\ dpc = "idle"
    /\ didx = 0
    /\ raceSeen = {}

\* Mutant: every required table is read into memory.
LoadedAllRequired(schema) ==
    [t \in Range(required_table_names) |-> <<schema, t>>]

\* self.tables['members'] = pd.read_sql(...): what the read leaves in
\* self.tables.
Loaded(schema) == Put(tables, "members", <<schema, "members">>)

\* Mutant: the note is printed when the optional table is present.
OptionalNoteInverted(schema, table_name) ==
    IF ~has_table(table_name, schema) THEN out
    ELSE Append(out, <<"Info: Optional table not found", schema, table_name>>)

\* if not insp.has_table(...): print("Info: Optional table ... not found")
OptionalNote(schema, table_name) ==
    IF has_table(table_name, schema) THEN out
    ELSE Append(out, <<"Info: Optional table not found", schema, table_name>>)

\* Mutant: the loop over the required tables stops one entry early.
LastRequiredShort == Len(required_table_names) - 1

\* The last turn of: for table_name in required_table_names
LastRequired == Len(required_table_names)

\* The exception leaves load_tables (and __init__, when it is the caller).
Raise(e, call) ==
    /\ pc' = "failed"
    /\ error' = e
    /\ calls' = Append(calls, call)

\* __init__: the configuration is loaded, the engine is created lazily from
\* whatever the postgres section holds (an absent section gives defaults),
\* and load_tables starts: self.tables = {} and the schema is resolved.
\* A caller whose construction failed holds no instance and may construct
\* again.  The application is started when no run of the diagnostic script
\* is under way.
DBConnector_init ==
    /\ pc = "new" \/ (pc = "failed" /\ ~constructed)
    /\ dpc \in {"idle", "done"}
    /\ loads < MaxLoads
    /\ pc' = "inspect"
    /\ loads' = loads + 1
    /\ tables' = EmptyDict
    /\ calls' = <<>>
    /\ out' = <<>>
    /\ error' = NoError
    /\ idx' = 0
    /\ UNCHANGED <<config, schemas, dbTables, constructed, diag, dpc, didx,
                   raceSeen>>

\* Mutant: load_tables without its self.tables = {}.
load_tables_keeping ==
    /\ constructed
    /\ pc \in {"ready", "failed"}
    /\ loads < MaxLoads
    /\ pc' = "inspect"
    /\ loads' = loads + 1
    /\ calls' = <<>>
    /\ out' = <<>>
    /\ error' = NoError
    /\ idx' = 0
    /\ UNCHANGED <<config, schemas, dbTables, tables, constructed, diag, dpc,
                   didx, raceSeen>>

\* load_tables called again on the instance the constructor returned.
load_tables ==
    /\ constructed
    /\ pc \in {"ready", "failed"}
    /\ loads < MaxLoads
    /\ pc' = "inspect"
    /\ loads' = loads + 1
    /\ tables' = EmptyDict
    /\ calls' = <<>>
    /\ out' = <<>>
    /\ error' = NoError
    /\ idx' = 0
    /\ UNCHANGED <<config, schemas, dbTables, constructed, diag, dpc, didx,
                   raceSeen>>

\* insp = sqlalchemy.inspect(self.engine): opens a first connection.
Inspect(faults) ==
    /\ pc = "inspect"
    /\ \E fault \in faults :
         IF fault
         THEN /\ Raise(BackendError("connect", "", ""),
                       Call("connect", "", "", "raised"))
              /\ UNCHANGED idx
         ELSE /\ pc' = "check"
              /\ idx' = 1
              /\ calls' = Append(calls, Call("connect", "", "", "ok"))
              /\ UNCHANGED error
    /\ UNCHANGED <<config, schemas, dbTables, tables, out, constructed,
                   loads, diag, dpc, didx, raceSeen>>

\* Mutant: a missing required table is logged and the loop goes on.
CheckRequiredLenient(faults) ==
    /\ pc = "check"
    /\ LET table_name == required_table_names[idx]
           schema == ResolvedSchema
       IN \E fault \in faults :
            IF fault
            THEN /\ Raise(BackendError("has_table", schema, table_name),
                          Call("has_table", schema, table_name, "raised"))
                 /\ UNCHANGED idx
            ELSE /\ calls' = Append(calls,
                          Call("has_table", schema, table_name,
                               IF has_table(table_name, schema)
                               THEN "true" ELSE "false"))
                 /\ IF idx = LastRequired
                    THEN pc' = "read" /\ idx' = 0
                    ELSE pc' = "check" /\ idx' = idx + 1
                 /\ UNCHANGED error
    /\ UNCHANGED <<config, schemas, dbTables, tables, out, constructed,
                   loads, diag, dpc, didx, raceSeen>>

\* One turn of: for table_name in required_table_names
CheckRequired(faults) ==
    /\ pc = "check"
    /\ LET table_name == required_table_names[idx]
           schema == ResolvedSchema
       IN \E fault \in faults :
            IF fault
            THEN /\ Raise(BackendError("has_table", schema, table_name),
                          Call("has_table", schema, table_name, "raised"))
                 /\ UNCHANGED idx
            ELSE IF ~has_table(table_name, schema)
            THEN /\ Raise(MissingRequired(schema, table_name),
                          Call("has_table", schema, table_name, "false"))
                 /\ UNCHANGED idx
            ELSE /\ calls' = Append(calls,
                          Call("has_table", schema, table_name, "true"))
                 /\ IF idx = LastRequired
                    THEN pc' = "read" /\ idx' = 0
                    ELSE pc' = "check" /\ idx' = idx + 1
                 /\ UNCHANGED error
    /\ UNCHANGED <<config, schemas, dbTables, tables, out, constructed,
                   loads, diag, dpc, didx, raceSeen>>

\* self.tables['members'] = pd.read_sql('SELECT * FROM {schema}.members')
ReadMembers(faults) ==
    /\ pc = "read"
    /\ LET schema == ResolvedSchema
       IN \E fault \in faults :
            IF fault \/ ~has_table("members", schema)
            THEN /\ Raise(BackendError("read_sql", schema, "members"),
                          Call("read_sql", schema, "members", "raised"))
                 /\ out' = Append(out, <<"Loading members table...">>)
                 /\ raceSeen' = IF fault THEN raceSeen
                                ELSE raceSeen \cup {"read_failed_after_check"}
                 /\ UNCHANGED <<tables, idx>>
            ELSE /\ calls' = Append(calls,
                          Call("read_sql", schema, "members", "rows"))
                 /\ tables' = Loaded(schema)
                 /\ out' = out \o << <<"Loading members table...">>,
                                     <<"Loaded members">> >>
                 /\ pc' = "optional"
                 /\ idx' = 1
                 /\ UNCHANGED <<error, raceSeen>>
    /\ UNCHANGED <<config, schemas, dbTables, constructed, loads, diag, dpc,
                   didx>>

\* One turn of: for table_name in optional_table_names; after the last one
\* load_tables returns.
CheckOptional(faults) ==
    /\ pc = "optional"
    /\ LET table_name == optional_table_names[idx]
           schema == ResolvedSchema
       IN \E fault \in faults :
            IF fault
            THEN /\ Raise(BackendError("has_table", schema, table_name),
                          Call("has_table", schema, table_name, "raised"))
                 /\ UNCHANGED <<idx, out, constructed, raceSeen>>
            ELSE /\ calls' = Append(calls,
                          Call("has_table", schema, table_name,
                               IF has_table(table_name, schema)
                               THEN "true" ELSE "false"))
                 /\ out' = OptionalNote(schema, table_name)
                 /\ IF idx = Len(optional_table_names)
                    THEN /\ pc' = "ready"
                         /\ idx' = 0
                         /\ constructed' = TRUE
                         /\ raceSeen' =
                              IF constructed \/ RequiredPresent(schema)
                              THEN raceSeen
                              ELSE raceSeen \cup {"ready_without_required"}
                    ELSE /\ pc' = "optional"
                         /\ idx' = idx + 1
                         /\ UNCHANGED <<constructed, raceSeen>>
                 /\ UNCHANGED error
    /\ UNCHANGED <<config, schemas, dbTables, tables, loads, diag, dpc,
                   didx>>

(* ------------------- changes made by other processes ------------------ *)

\* Another process creates, or drops, a table of a schema in `within`
\* while the Connector is at a position in `when`.
CreateTable(when, within) ==
    /\ pc \in when
    /\ \E s \in schemas \cap within, t \in TableNames :
         /\ <<s, t>> \notin dbTables
         /\ dbTables' = dbTables \cup {<<s, t>>}
    /\ UNCHANGED <<config, schemas, pc, idx, tables, calls, out, error,
                   constructed, loads, diag, dpc, didx, raceSeen>>

DropTable(when, within) ==
    /\ pc \in when
    /\ \E st \in dbTables : st[1] \in within /\ dbTables' = dbTables \ {st}
    /\ UNCHANGED <<config, schemas, pc, idx, tables, calls, out, error,
                   constructed, loads, diag, dpc, didx, raceSeen>>

(* ----------------------- the diagnostic script ------------------------ *)

\* The keys of required_tables, in the order the dict lists them.
required_tables ==
    <<"claims_entries", "claims_diagnoses", "claims_procedures",
      "claims_drugs", "members">>

\* The keys of the script's optional_tables.
optional_tables == <<"claims_members_monthly_utilization">>

\* if configured_schema not in schemas: if schemas: schemas[0]
configured_schema(pg_config, listed) ==
    LET configured == Get(pg_config, "schema", "public")
    IN IF configured \notin Range(listed) /\ listed # <<>>
       THEN listed[1]
       ELSE configured

\* Everything but the script's own locals is left untouched by its steps.
DiagUnchanged ==
    UNCHANGED <<config, schemas, dbTables, pc, idx, tables, calls, out,
                error, constructed, loads, raceSeen>>

\* return False before any table was checked.
ReturnedEarly ==
    [ran |-> TRUE, ok |-> FALSE, schema |-> "", listed |-> <<>>,
     missing |-> <<>>]

\* The SUMMARY: the script returns True when missing_tables is empty.
Returned(d) == [d EXCEPT !.ran = TRUE, !.ok = (d.missing = <<>>)]

\* missing_tables.append(table_name)
Missing(d, table_name) == [d EXCEPT !.missing = Append(@, table_name)]

\* test_connection starts: the configuration is loaded, and without a
\* postgres section (or with an empty one) the script returns False.
test_connection ==
    /\ pc = "new"
    /\ dpc = "idle"
    /\ ~diag.ran
    /\ IF Get(config, "postgres", EmptyDict) = EmptyDict
       THEN diag' = ReturnedEarly /\ dpc' = "done"
       ELSE diag' = diag /\ dpc' = "connect"
    /\ UNCHANGED didx
    /\ DiagUnchanged

\* engine.connect() and SELECT version(); an exception returns False.
DiagConnect(faults) ==
    /\ dpc = "connect"
    /\ \E fault \in faults :
         IF fault
         THEN diag' = ReturnedEarly /\ dpc' = "done"
         ELSE diag' = diag /\ dpc' = "inspect"
    /\ UNCHANGED didx
    /\ DiagUnchanged

\* insp = sqlalchemy.inspect(engine); an exception returns False.
DiagInspect(faults) ==
    /\ dpc = "inspect"
    /\ \E fault \in faults :
         IF fault
         THEN diag' = ReturnedEarly /\ dpc' = "done"
         ELSE diag' = diag /\ dpc' = "schemas"
    /\ UNCHANGED didx
    /\ DiagUnchanged

\* schemas = insp.get_schema_names(), then the choice of configured_schema;
\* an exception returns False.
DiagListSchemas(faults) ==
    /\ dpc = "schemas"
    /\ \E fault \in faults :
         IF fault
         THEN diag' = ReturnedEarly /\ dpc' = "done" /\ UNCHANGED didx
         ELSE /\ diag' = [diag EXCEPT
                    !.listed = get_schema_names,
                    !.schema = configured_schema(
                        Get(config, "postgres", EmptyDict), get_schema_names)]
              /\ dpc' = "check"
              /\ didx' = 1
    /\ DiagUnchanged

\* After the turn of required_tables[didx]: the next turn, or the loop over
\* the optional tables.
DiagNextTurn ==
    IF didx = Len(required_tables)
    THEN dpc' = "optional" /\ didx' = 0
    ELSE dpc' = "check" /\ didx' = didx + 1

\* One turn of the loop over required_tables: insp.has_table.  A table
\* whose check answers false, or raises, is appended to missing_tables; a
\* table that is found has its columns listed next.
DiagHasTable(faults) ==
    /\ dpc = "check"
    /\ LET table_name == required_tables[didx]
       IN \E fault \in faults :
            IF fault \/ ~has_table(table_name, diag.schema)
            THEN diag' = Missing(diag, table_name) /\ DiagNextTurn
            ELSE diag' = diag /\ dpc' = "columns" /\ UNCHANGED didx
    /\ DiagUnchanged

\* insp.get_columns of the table just found: it raises when the call fails
\* or the table is gone by now, and the table is appended to missing_tables.
DiagGetColumns(faults) ==
    /\ dpc = "columns"
    /\ LET table_name == required_tables[didx]
       IN \E fault \in faults :
            /\ diag' = IF fault \/ ~has_table(table_name, diag.schema)
                       THEN Missing(diag, table_name)
                       ELSE diag
            /\ DiagNextTurn
    /\ DiagUnchanged

\* After the optional tables: the sample query when claims_entries was
\* found, the SUMMARY otherwise.
DiagAfterOptional ==
    IF "claims_entries" \in Range(diag.missing)
    THEN diag' = Returned(diag) /\ dpc' = "done"
    ELSE diag' = diag /\ dpc' = "query"

\* The loop over optional_tables: insp.has_table.  Whatever it answers or
\* raises is only printed; an optional table that is found has its columns
\* listed next.
DiagHasOptional(faults) ==
    /\ dpc = "optional"
    /\ \E fault \in faults :
         IF ~fault /\ has_table(optional_tables[1], diag.schema)
         THEN diag' = diag /\ dpc' = "optional_columns"
         ELSE DiagAfterOptional
    /\ UNCHANGED didx
    /\ DiagUnchanged

\* insp.get_columns of the optional table: only printed.
DiagGetOptionalColumns ==
    /\ dpc = "optional_columns"
    /\ DiagAfterOptional
    /\ UNCHANGED didx
    /\ DiagUnchanged

\* SELECT COUNT(*) FROM <schema>.claims_entries: only printed, then the
\* SUMMARY.
DiagQuery ==
    /\ dpc = "query"
    /\ diag' = Returned(diag)
    /\ dpc' = "done"
    /\ UNCHANGED didx
    /\ DiagUnchanged

(* -------------------------- specifications ---------------------------- *)

Running == {"inspect", "check", "read", "optional"}

\* Between two calls, when another call can follow.
BetweenCalls == IF loads < MaxLoads THEN {"ready", "failed"} ELSE {}

\* The Connector against a backend that changes only between its calls and
\* whose calls may raise.
Next ==
    \/ DBConnector_init
    \/ load_tables
    \/ Inspect(BOOLEAN)
    \/ CheckRequired(BOOLEAN)
    \/ ReadMembers(BOOLEAN)
    \/ CheckOptional(BOOLEAN)
    \/ CreateTable(BetweenCalls, SchemaNames)
    \/ DropTable(BetweenCalls, SchemaNames)

Spec == Init /\ [][Next]_vars

\* The diagnostic script, then the Connector's construction, on the same
\* configuration and the same unchanging backend.
NextDiag ==
    \/ test_connection
    \/ DiagConnect({FALSE})
    \/ DiagInspect({FALSE})
    \/ DiagListSchemas({FALSE})
    \/ DiagHasTable({FALSE})
    \/ DiagGetColumns({FALSE})
    \/ DiagHasOptional({FALSE})
    \/ DiagGetOptionalColumns
    \/ DiagQuery
    \/ DBConnector_init
    \/ Inspect({FALSE})
    \/ CheckRequired({FALSE})
    \/ ReadMembers({FALSE})
    \/ CheckOptional({FALSE})

SpecDiag == Init /\ [][NextDiag]_vars

\* The Connector's calls while other processes create and drop tables of
\* the schema it validates, between any two of its backend calls.
NextRace ==
    \/ DBConnector_init
    \/ load_tables
    \/ Inspect({FALSE})
    \/ CheckRequired({FALSE})
    \/ ReadMembers({FALSE})
    \/ CheckOptional({FALSE})
    \/ CreateTable(Running, {ResolvedSchema})
    \/ DropTable(Running, {ResolvedSchema})

\* Only the tables of the schema the Connector validates vary.
InitRace == Init /\ \A st \in dbTables : st[1] = ResolvedSchema

SpecRace == InitRace /\ [][NextRace]_vars

\* The positions at which the script is between two of its backend calls.
ScriptRunning ==
    {"connect", "inspect", "schemas", "check", "columns", "optional",
     "optional_columns", "query"}

\* The script is under way (the application has not been started).
DuringScript == IF dpc \in ScriptRunning THEN {"new"} ELSE {}

\* The schema the script validates under: the configured one when it is
\* listed, the first listed one otherwise.
ScriptSchema ==
    configured_schema(Get(config, "postgres", EmptyDict), get_schema_names)

\* The diagnostic script while other processes create and drop tables of
\* the schema it validates, between any two of its backend calls, and
\* while its calls may raise.
NextDiagRace ==
    \/ test_connection
    \/ DiagConnect(BOOLEAN)
    \/ DiagInspect(BOOLEAN)
    \/ DiagListSchemas(BOOLEAN)
    \/ DiagHasTable(BOOLEAN)
    \/ DiagGetColumns(BOOLEAN)
    \/ DiagHasOptional(BOOLEAN)
    \/ DiagGetOptionalColumns
    \/ DiagQuery
    \/ CreateTable(DuringScript, {ScriptSchema})
    \/ DropTable(DuringScript, {ScriptSchema})

InitDiagRace == Init /\ \A st \in dbTables : st[1] = ScriptSchema

SpecDiagRace == InitDiagRace /\ [][NextDiagRace]_vars

(* ------------------ what the formulas below talk about ---------------- *)

\* The tables the Table Requirement Spec marks eager.
EagerTables == {"members"}

\* The schema the configuration alone determines.
ExpectedSchema ==
    IF "postgres" \in DOMAIN config /\ "schema" \in DOMAIN config["postgres"]
    THEN config["postgres"]["schema"]
    ELSE "public"

FiveRequired ==
    {"claims_entries", "claims_diagnoses", "claims_procedures",
     "claims_drugs", "members"}

OptionalTable == "claims_members_monthly_utilization"

\* The running call ends in this step.
Returns == pc \in Running /\ pc' \in {"ready", "failed"}

\* In the call that ends, no backend call raised.
NoCallRaised == error'.type # "BackendError"

\* The first required table, in the order of the list, absent under s.
FirstAbsent(s) ==
    required_table_names[
        CHOOSE k \in 1..Len(required_table_names) :
            /\ ~has_table(required_table_names[k], s)
            /\ \A j \in 1..(k - 1) : has_table(required_table_names[j], s)]

\* Position of the existence check of t that answered true, in the current
\* call's log.
CheckedTrueAt(t) ==
    {i \in DOMAIN calls : calls[i] = Call("has_table", ExpectedSchema, t, "true")}

AllRequiredCheckedTrue == \A t \in FiveRequired : CheckedTrueAt(t) # {}

Reads == {i \in DOMAIN calls : calls[i].op = "read_sql"}

InfoNotes(o) ==
    Cardinality({i \in DOMAIN o : o[i][1] = "Info: Optional table not found"})

\* The call failed in the optional table's existence check, after the read.
FailedInOptionalCheck ==
    /\ pc = "failed"
    /\ error = BackendError("has_table", ExpectedSchema, OptionalTable)

(* -------------------------------- C1 ---------------------------------- *)

\* C1: when all five required tables exist under the resolved schema and no
\* backend call raises, the construction succeeds and the keys of
\* self.tables are exactly the eager tables, {members}, whether or not the
\* optional table exists.
C1_AllPresentLoadsExactlyEager ==
    [][ (Returns /\ ~constructed /\ RequiredPresent(ExpectedSchema)
         /\ NoCallRaised)
        => (pc' = "ready" /\ constructed' /\ DOMAIN tables' = EagerTables)
      ]_vars

C1_Witness ==
    /\ pc = "ready" /\ loads = 1 /\ constructed
    /\ RequiredPresent(ExpectedSchema)
    /\ has_table(OptionalTable, ExpectedSchema)
    /\ DOMAIN tables = {"members"}

(* -------------------------------- C2 ---------------------------------- *)

\* C2: when a required table is absent under the resolved schema (and the
\* backend answers every call), the construction fails with the
\* missing-table error, whose message names schema.table of the first
\* absent required table in the order of the list.
C2_FirstAbsentIsNamed ==
    [][ (Returns /\ ~constructed /\ ~RequiredPresent(ExpectedSchema)
         /\ NoCallRaised)
        => (/\ pc' = "failed"
            /\ ~constructed'
            /\ error'.type = "RuntimeError"
            /\ error'.msg = <<"Missing required table", ExpectedSchema,
                              FirstAbsent(ExpectedSchema)>>)
      ]_vars

\* The scenario of the specification: clinical.members exists,
\* clinical.claims_drugs does not.
C2_Witness ==
    /\ pc = "failed" /\ loads = 1 /\ ~constructed
    /\ ExpectedSchema = "clinical"
    /\ \A t \in FiveRequired \ {"claims_drugs"} : has_table(t, "clinical")
    /\ ~has_table("claims_drugs", "clinical")
    /\ error.msg = <<"Missing required table", "clinical", "claims_drugs">>

(* -------------------------------- C3 ---------------------------------- *)

\* self.tables holds a table only if that table and all required tables
\* passed their existence checks in this call.
OnlyValidatedTables ==
    \A t \in DOMAIN tables : CheckedTrueAt(t) # {} /\ AllRequiredCheckedTrue

\* C3 as claimed: only validated tables are held, and whenever the
\* construction fails self.tables is empty and no instance is returned.
C3_EmptyOnEveryFailure ==
    /\ OnlyValidatedTables
    /\ (pc = "failed" /\ loads = 1) => ~constructed
    /\ (pc = "failed" /\ ~constructed) => tables = EmptyDict

\* C3 as amended: only validated tables are held; whenever the construction
\* fails no instance is returned; self.tables of the discarded object is
\* empty unless the failing call is the optional table's existence check,
\* which raises after members was read.
C3_EmptyUnlessOptionalCheckRaised ==
    /\ OnlyValidatedTables
    /\ (pc = "failed" /\ loads = 1) => ~constructed
    /\ (pc = "failed" /\ ~constructed) =>
          IF FailedInOptionalCheck
          THEN DOMAIN tables = {"members"}
          ELSE tables = EmptyDict

C3_Witness ==
    /\ pc = "failed" /\ loads = 1 /\ ~constructed
    /\ FailedInOptionalCheck
    /\ DOMAIN tables = {"members"}

(* -------------------------------- C4 ---------------------------------- *)

\* C4: with all required tables present and every call answered, the
\* construction succeeds, self.tables excludes the optional table, no read
\* of the optional table is issued, and the number of informational notes
\* is one when the optional table is absent and zero when it is present.
C4_OptionalAbsentIsOnlyNoted ==
    [][ (Returns /\ ~constructed /\ RequiredPresent(ExpectedSchema)
         /\ NoCallRaised)
        => (/\ pc' = "ready"
            /\ error' = NoError
            /\ OptionalTable \notin DOMAIN tables'
            /\ \A i \in DOMAIN calls' :
                 calls'[i].op = "read_sql" => calls'[i].table # OptionalTable
            /\ InfoNotes(out') =
                 IF has_table(OptionalTable, ExpectedSchema) THEN 0 ELSE 1)
      ]_vars

C4_Witness ==
    /\ pc = "ready" /\ loads = 1
    /\ RequiredPresent(ExpectedSchema)
    /\ ~has_table(OptionalTable, ExpectedSchema)
    /\ DOMAIN tables = {"members"}
    /\ InfoNotes(out) = 1

(* -------------------------------- C5 ---------------------------------- *)

\* C5: without a postgres section the construction fails (with
\* ConfigurationError) before any existence check or read is issued: no
\* such call is ever in the log, and the Connector never gets ready.
C5_NoSectionFailsBeforeAnyCall ==
    "postgres" \notin DOMAIN config =>
        /\ \A i \in DOMAIN calls : calls[i].op \notin {"has_table", "read_sql"}
        /\ pc # "ready"

(* -------------------------------- C6 ---------------------------------- *)

\* C6: every existence check and every read of every call uses the schema
\* the configuration alone determines (its 'schema' value, else 'public'),
\* whatever schemas and tables the backend holds, and what is read into
\* self.tables comes from that schema.
C6_OneSchemaFromConfigAlone ==
    /\ \A i \in DOMAIN calls :
         calls[i].op \in {"has_table", "read_sql"}
            => calls[i].schema = ExpectedSchema
    /\ \A t \in DOMAIN tables : tables[t][1] = ExpectedSchema
    /\ (pc = "failed" /\ error.type = "RuntimeError")
          => error.msg[2] = ExpectedSchema

\* The configured schema does not exist, another schema holds every
\* required table, and the Connector still asked for the configured one.
C6_Witness ==
    /\ pc = "failed"
    /\ ExpectedSchema = "clinical"
    /\ "clinical" \notin schemas
    /\ RequiredPresent("public")
    /\ calls[Len(calls)] =
         Call("has_table", "clinical", "claims_entries", "false")

(* -------------------------------- C7 ---------------------------------- *)

\* C7: in one call the only read issued is that of <schema>.members, at
\* most once, and only after the existence checks of all five required
\* tables answered true.
C7_OneReadAfterValidation ==
    /\ Cardinality(Reads) <= 1
    /\ \A i \in Reads :
         /\ calls[i].table = "members"
         /\ calls[i].schema = ExpectedSchema
         /\ \A t \in FiveRequired : \E j \in CheckedTrueAt(t) : j < i

\* The optional table exists as well, and only members was read.
C7_Witness ==
    /\ pc = "ready" /\ loads = 1
    /\ has_table(OptionalTable, ExpectedSchema)
    /\ Cardinality(Reads) = 1
    /\ \A i \in Reads :
         calls[i] = Call("read_sql", ExpectedSchema, "members", "rows")

(* -------------------------------- C8 ---------------------------------- *)

\* The script and the constructor have both run, on the same backend.
BothRan == diag.ran /\ pc \in {"ready", "failed"}

\* With the configured schema among the backend's schemas the script
\* reports success if and only if the Connector's validation of the
\* required tables passes.
AgreeUnderConfiguredSchema ==
    (BothRan /\ ExpectedSchema \in schemas) =>
        (diag.ok <=> AllRequiredCheckedTrue)

\* With the configured schema not among the backend's schemas, the
\* Connector fails, whatever the script reports.
DisagreeOnFallback ==
    (BothRan /\ ExpectedSchema \notin schemas /\ schemas # {}) =>
        pc = "failed"

\* C8: the script and the Connector disagree exactly on the schema
\* fallback.
C8_DisagreeExactlyOnFallback == AgreeUnderConfiguredSchema /\ DisagreeOnFallback

\* The schema the script validates under: the configured one when it is
\* listed, the first listed one otherwise.
ScriptValidatesUnder ==
    IF ExpectedSchema \in schemas \/ schemas = {}
    THEN ExpectedSchema
    ELSE get_schema_names[1]

\* For the configurations whose postgres section is not empty the
\* statement holds, with the schema each side validates under.
C8_HoldsWithSection ==
    (BothRan /\ Get(config, "postgres", EmptyDict) # EmptyDict) =>
        /\ C8_DisagreeExactlyOnFallback
        /\ diag.schema = ScriptValidatesUnder
        /\ diag.ok <=> RequiredPresent(ScriptValidatesUnder)
        /\ \A i \in DOMAIN calls :
             calls[i].op = "has_table" => calls[i].schema = ExpectedSchema

\* The fallback lets the script succeed where the Connector fails.
C8_FallbackSeen ==
    /\ BothRan /\ ExpectedSchema \notin schemas
    /\ diag.ok /\ pc = "failed"

\* The script under concurrent changes (SpecDiagRace): it returns True
\* although a required table does not exist when it returns.
ScriptPassedStale ==
    /\ diag.ran /\ diag.ok
    /\ ~RequiredPresent(diag.schema)

\* The script under concurrent changes: it reports as missing a table that
\* exists when it returns, created after the script checked it.
ScriptMissedBoth ==
    /\ diag.ran
    /\ diag.missing = <<"claims_entries", "members">>
    /\ has_table("claims_entries", diag.schema)

\* Without concurrent changes and faults the script returns exactly what
\* the backend holds under the schema it validated.
ScriptReportsBackend ==
    diag.ran /\ diag.schema # "" =>
        /\ diag.missing =
             SelectSeq(required_tables,
                       LAMBDA t : ~has_table(t, diag.schema))
        /\ diag.ok = RequiredPresent(diag.schema)

(* -------------------------------- C9 ---------------------------------- *)

\* C9: while other processes create and drop tables at any moment, what a
\* call still guarantees is only that each required table answered true
\* when it was checked: a ready Connector has five true checks in its log
\* and holds exactly members, and a failing read comes after five true
\* checks and leaves self.tables empty.  The two effects of the missing
\* snapshot are the states of C9_Witness.
C9_ValidationIsNotASnapshot ==
    /\ pc = "ready" =>
          AllRequiredCheckedTrue /\ DOMAIN tables = {"members"}
    /\ (pc = "failed" /\ error.type = "BackendError") =>
          /\ error = BackendError("read_sql", ExpectedSchema, "members")
          /\ AllRequiredCheckedTrue
          /\ tables = EmptyDict
    /\ "ready_without_required" \in raceSeen => constructed

\* Both executions have happened: a read of members that failed after
\* members passed its check, and a construction that returned a ready
\* Connector while a required table no longer existed.
C9_Witness ==
    raceSeen = {"read_failed_after_check", "ready_without_required"}

(* -------------------------------- C10 --------------------------------- *)

\* A load_tables call on a constructed Connector has ended.
AfterCall == constructed /\ pc \in {"ready", "failed"}

\* C10 as claimed: after any sequence of calls the keys of self.tables are
\* {} or {members}, and {members} exactly when the last call succeeded.
C10_MembersIffLastCallSucceeded ==
    AfterCall =>
        /\ DOMAIN tables \in {{}, {"members"}}
        /\ DOMAIN tables = {"members"} <=> pc = "ready"

\* C10 as amended: the keys are {} or {members}, and {members} exactly when
\* the last call completed its read of members: it succeeded, or it failed
\* in the optional table's existence check.  What is held was read by the
\* last call, never kept from an earlier one.
C10_MembersIffLastCallRead ==
    AfterCall =>
        /\ DOMAIN tables \in {{}, {"members"}}
        /\ DOMAIN tables = {"members"} <=>
              (pc = "ready" \/ FailedInOptionalCheck)
        /\ DOMAIN tables = {"members"} =>
              \E i \in Reads : calls[i].result = "rows"

\* A call on a Connector that was ready fails on a missing table and leaves
\* self.tables empty.
C10_Witness ==
    /\ AfterCall /\ loads = 2 /\ pc = "failed"
    /\ error.type = "RuntimeError"
    /\ tables = EmptyDict

====
